---- MODULE Spec2Model ----
(***************************************************************************)
(* Model of mautrix_signal/formatter.py: the UTF-16 offset codec           *)
(* (add_surrogate / del_surrogate), the inbound conversion                 *)
(* signal_to_matrix, the SignalFormatString.format dispatch, the pill      *)
(* resolution of MatrixParser and the outbound conversion                  *)
(* matrix_to_signal.                                                       *)
(*                                                                         *)
(* Text is a sequence of code points (Python str).  A "surrogated" text    *)
(* is a Python str whose astral characters were replaced by their two      *)
(* UTF-16 surrogate code units, each a character of its own.               *)
(***************************************************************************)
EXTENDS Integers, Sequences, FiniteSets, TLC

VARIABLES
    codec,      \* one add_surrogate / del_surrogate round trip
    fmt,        \* one SignalFormatString and the format calls applied to it
    tasks,      \* the running conversions (coroutines), by task id
    puppets     \* the puppet directory: uuids that have a puppet record

vars == <<codec, fmt, tasks, puppets>>

(***************************************************************************)
(* Bounds of the model.                                                    *)
(***************************************************************************)
MaxCodecLen == 3
MaxBody == 2
MaxMentions == 2
MaxMentionLen == 2
MaxFmtOps == 3
MaxHeaderSize == 2
MaxHtml == 5
NumTasks == 2

(***************************************************************************)
(* Python str primitives.                                                  *)
(***************************************************************************)
None == <<-1>>

Min(a, b) == IF a < b THEN a ELSE b

\* s[a:b] for a, b >= 0: the bounds are clamped to len(s), never an error.
Slice(s, a, b) ==
    LET lo == Min(a, Len(s))
        hi == Min(b, Len(s))
    IN  IF hi <= lo THEN <<>> ELSE SubSeq(s, lo + 1, hi)

\* s[a:]
SliceFrom(s, a) == Slice(s, a, Len(s))

\* "".join(chunks)
RECURSIVE Join(_)
Join(chunks) ==
    IF chunks = <<>> THEN <<>> ELSE Head(chunks) \o Join(Tail(chunks))

\* x or y, for str-or-None x
Or(x, y) == IF x = None \/ x = <<>> THEN y ELSE x

(***************************************************************************)
(* Offset codec: add_surrogate, del_surrogate.                             *)
(***************************************************************************)
AstralMin == 65536
AstralMax == 1114111
HighSurrogateBase == 55296
LowSurrogateBase == 56320
LowSurrogateMax == 57343
ByteOrderMark == 65279

\* A mutant of IsAstral: the lower bound taken strictly.
IsAstralStrict(cp) == AstralMin < cp /\ cp <= AstralMax

\* 0x10000 <= ord(x) <= 0x10FFFF
IsAstral(cp) == AstralMin <= cp /\ cp <= AstralMax

\* struct.unpack("<HH", x.encode("utf-16le")): the two code units of an
\* astral character.
SurrogatePair(cp) ==
    << HighSurrogateBase + ((cp - AstralMin) \div 1024),
       LowSurrogateBase + ((cp - AstralMin) % 1024) >>

\* Every astral character replaced by its two code units, the others kept.
\* (The text is mapped and joined by halves.)
RECURSIVE add_surrogate(_)
add_surrogate(text) ==
    IF text = <<>> THEN <<>>
    ELSE IF Len(text) = 1
    THEN (IF IsAstral(text[1]) THEN SurrogatePair(text[1]) ELSE text)
    ELSE LET half == Len(text) \div 2 IN
         add_surrogate(SubSeq(text, 1, half))
            \o add_surrogate(SubSeq(text, half + 1, Len(text)))

IsHighSurrogate(u) == HighSurrogateBase <= u /\ u < LowSurrogateBase
IsLowSurrogate(u) == LowSurrogateBase <= u /\ u <= LowSurrogateMax

\* text.encode("utf-16", "surrogatepass"): a byte order mark, then the code
\* units of every character; a surrogate character passes as its own unit.
RECURSIVE EncodeUnits(_)
EncodeUnits(text) ==
    IF text = <<>> THEN <<>>
    ELSE IF Len(text) = 1
    THEN (IF text[1] >= AstralMin THEN SurrogatePair(text[1]) ELSE text)
    ELSE LET half == Len(text) \div 2 IN
         EncodeUnits(SubSeq(text, 1, half))
            \o EncodeUnits(SubSeq(text, half + 1, Len(text)))

utf16_encode(text) == <<ByteOrderMark>> \o EncodeUnits(text)

\* The strict UTF-16 decoder: a high surrogate followed by a low one is one
\* astral character, any other surrogate is a UnicodeDecodeError.
DecodeUnits(units) ==
    LET n == Len(units)
        paired(i) ==
            /\ IsHighSurrogate(units[i]) => (i < n /\ IsLowSurrogate(units[i + 1]))
            /\ IsLowSurrogate(units[i]) => (i > 1 /\ IsHighSurrogate(units[i - 1]))
        first(i) == ~IsLowSurrogate(units[i])
        firsts == SelectSeq([i \in 1..n |-> i], first)
        char(i) == IF IsHighSurrogate(units[i])
                   THEN AstralMin + (units[i] - HighSurrogateBase) * 1024
                        + (units[i + 1] - LowSurrogateBase)
                   ELSE units[i]
    IN  IF \A i \in 1..n : paired(i)
        THEN [ok |-> TRUE, text |-> [k \in 1..Len(firsts) |-> char(firsts[k])]]
        ELSE [ok |-> FALSE, text |-> <<>>]

\* bytes.decode("utf-16"): the leading byte order mark is consumed.
utf16_decode(units) ==
    LET r == DecodeUnits(IF units # <<>> /\ Head(units) = ByteOrderMark
                         THEN Tail(units) ELSE units)
    IN  IF r.ok THEN r ELSE [ok |-> FALSE, text |-> <<>>]

\* del_surrogate: [ok |-> FALSE] stands for the UnicodeDecodeError raised.
del_surrogate(text) == utf16_decode(utf16_encode(text))

(***************************************************************************)
(* The codec round trip as a state machine over well-formed texts.         *)
(***************************************************************************)
CodecAlphabet == {97, 65535, 65536, 128512, 1114111}

TextsUpTo(alphabet, n) == UNION {[1..k -> alphabet] : k \in 0..n}

IdleCodec == [pc |-> "idle", text |-> <<>>, expanded |-> <<>>,
              collapsed |-> [ok |-> TRUE, text |-> <<>>]]

IdleFmt == [active |-> FALSE, f |-> [text |-> <<>>, entities |-> <<>>],
            origin |-> <<>>, wraps_only |-> TRUE,
            last |-> [op |-> "", text_before |-> <<>>, n_before |-> 0],
            nops |-> 0]

IdleTasks == <<>>

\* No puppet but u1's is in the directory when a conversion starts.
InitPuppets == {"u1"}

InitCodec ==
    /\ \E s \in TextsUpTo(CodecAlphabet, MaxCodecLen) :
        codec = [pc |-> "input", text |-> s, expanded |-> <<>>,
                 collapsed |-> [ok |-> TRUE, text |-> <<>>]]
    /\ fmt = IdleFmt /\ tasks = IdleTasks /\ puppets = InitPuppets

CodecExpand ==
    /\ codec.pc = "input"
    /\ codec' = [codec EXCEPT !.pc = "expanded",
                              !.expanded = add_surrogate(codec.text)]
    /\ UNCHANGED <<fmt, tasks, puppets>>

CodecCollapse ==
    /\ codec.pc = "expanded"
    /\ codec' = [codec EXCEPT !.pc = "collapsed",
                              !.collapsed = del_surrogate(codec.expanded)]
    /\ UNCHANGED <<fmt, tasks, puppets>>

(***************************************************************************)
(* The puppet directory (pu.Puppet), an external collaborator.             *)
(***************************************************************************)
Uuids == {"u1", "u2"}

\* The display name of a puppet: u1 has one (with an astral character), a
\* puppet created on first sight has none.
PuppetName(uuid) == IF uuid = "u1" THEN <<78, 128512>> ELSE None

\* The Matrix id of the puppet of a Signal user.
PuppetMxid(uuid) == IF uuid = "u1" THEN <<64, 49>> ELSE <<64, 50>>

(***************************************************************************)
(* signal_to_matrix.                                                       *)
(***************************************************************************)
\* html.escape(s)
EscapeChar(c) ==
    CASE c = 38 -> <<38, 97, 109, 112, 59>>
      [] c = 60 -> <<38, 108, 116, 59>>
      [] c = 62 -> <<38, 103, 116, 59>>
      [] c = 34 -> <<38, 113, 117, 111, 116, 59>>
      [] c = 39 -> <<38, 35, 120, 50, 55, 59>>
      [] OTHER -> <<c>>

RECURSIVE html_escape(_)
html_escape(s) ==
    IF s = <<>> THEN <<>>
    ELSE IF Len(s) = 1 THEN EscapeChar(s[1])
    ELSE LET half == Len(s) \div 2 IN
         html_escape(SubSeq(s, 1, half))
            \o html_escape(SubSeq(s, half + 1, Len(s)))

\* f'<a href="https://matrix.to/#/{mxid}">{name}</a>'
Anchor(mxid, name) ==
    <<60, 97, 32, 104, 114, 101, 102, 61, 34, 104, 116, 116, 112, 115, 58,
      47, 47, 109, 97, 116, 114, 105, 120, 46, 116, 111, 47, 35, 47>>
    \o mxid \o <<34, 62>> \o name \o <<60, 47, 97, 62>>

\* A conversion not started yet: the coroutine object holding its argument.
S2MTask(message) ==
    [kind |-> "s2m", pc |-> "start", message |-> message,
     surrogated_text |-> <<>>, i |-> 1, last_offset |-> 0,
     text_chunks |-> <<>>, html_chunks |-> <<>>,
     content |-> [body |-> <<>>, format |-> "none", formatted_body |-> None],
     error |-> ""]

\* Lines 52-57: the content is created from the body, the body expanded.
s2m_begin(st) ==
    [st EXCEPT !.content = [body |-> st.message.body, format |-> "none",
                            formatted_body |-> None],
               !.surrogated_text = add_surrogate(st.message.body),
               !.pc = IF st.message.mentions # <<>> THEN "loop" ELSE "done"]

\* A mutant of s2m_mention: the mention's own characters are not skipped.
s2m_mention_keep(st) ==
    LET mention == st.message.mentions[st.i]
        before == Slice(st.surrogated_text, st.last_offset, mention.start)
    IN  [st EXCEPT !.last_offset = mention.start,
                   !.text_chunks = Append(@, before),
                   !.html_chunks = Append(@, html_escape(before)),
                   !.pc = "await"]

\* Lines 58-63: the span before the next mention of the list, up to the
\* suspension at the directory lookup.
s2m_mention(st) ==
    LET mention == st.message.mentions[st.i]
        before == Slice(st.surrogated_text, st.last_offset, mention.start)
    IN  [st EXCEPT !.last_offset = mention.start + mention.length,
                   !.text_chunks = Append(@, before),
                   !.html_chunks = Append(@, html_escape(before)),
                   !.pc = "await"]

\* Lines 64-67: the lookup returned the puppet of the mention's uuid.
s2m_resume(st) ==
    LET uuid == st.message.mentions[st.i].uuid
        name == add_surrogate(Or(PuppetName(uuid), PuppetMxid(uuid)))
    IN  [st EXCEPT !.text_chunks = Append(@, name),
                   !.html_chunks = Append(@, Anchor(PuppetMxid(uuid), name)),
                   !.i = @ + 1,
                   !.pc = IF st.i < Len(st.message.mentions)
                          THEN "loop" ELSE "tail"]

\* The text chunks of every conversion in flight, in the order of the tasks.
RECURSIVE AllTextChunks(_)
AllTextChunks(t) ==
    IF t > Len(tasks) THEN <<>>
    ELSE (IF tasks[t].kind = "s2m" THEN tasks[t].text_chunks ELSE <<>>)
            \o AllTextChunks(t + 1)

\* A mutant of s2m_finish: text_chunks is one list all invocations append
\* to, so the body is joined from the chunks of all of them.
s2m_finish_shared(st) ==
    LET end == SliceFrom(st.surrogated_text, st.last_offset)
        body == del_surrogate(Join(Append(AllTextChunks(1), end)))
        formatted == del_surrogate(Join(Append(st.html_chunks,
                                               html_escape(end))))
    IN  IF body.ok /\ formatted.ok
        THEN [st EXCEPT !.text_chunks = Append(st.text_chunks, end),
                        !.html_chunks = Append(st.html_chunks, html_escape(end)),
                        !.content = [body |-> body.text, format |-> "html",
                                     formatted_body |-> formatted.text],
                        !.pc = "done"]
        ELSE [st EXCEPT !.pc = "raised", !.error = "UnicodeDecodeError"]

\* Lines 68-74: the tail, and both buffers collapsed.  A decoding error of
\* del_surrogate leaves the coroutine by an exception.
s2m_finish(st) ==
    LET end == SliceFrom(st.surrogated_text, st.last_offset)
        body == del_surrogate(Join(Append(st.text_chunks, end)))
        formatted == del_surrogate(Join(Append(st.html_chunks,
                                               html_escape(end))))
    IN  IF body.ok /\ formatted.ok
        THEN [st EXCEPT !.text_chunks = Append(st.text_chunks, end),
                        !.html_chunks = Append(st.html_chunks, html_escape(end)),
                        !.content = [body |-> body.text, format |-> "html",
                                     formatted_body |-> formatted.text],
                        !.pc = "done"]
        ELSE [st EXCEPT !.text_chunks = Append(st.text_chunks, end),
                        !.html_chunks = Append(st.html_chunks, html_escape(end)),
                        !.content = [st.content EXCEPT !.body =
                                IF body.ok THEN body.text ELSE st.content.body],
                        !.pc = "raised", !.error = "UnicodeDecodeError"]

S2MBegin(t) ==
    /\ tasks[t].kind = "s2m" /\ tasks[t].pc = "start"
    /\ tasks' = [tasks EXCEPT ![t] = s2m_begin(tasks[t])]
    /\ UNCHANGED <<codec, fmt, puppets>>

S2MMention(t) ==
    /\ tasks[t].kind = "s2m" /\ tasks[t].pc = "loop"
    /\ tasks' = [tasks EXCEPT ![t] = s2m_mention(tasks[t])]
    /\ UNCHANGED <<codec, fmt, puppets>>

\* pu.Puppet.get_by_address returns, creating the puppet record if the
\* directory has none.
S2MLookupReturn(t) ==
    /\ tasks[t].kind = "s2m" /\ tasks[t].pc = "await"
    /\ tasks' = [tasks EXCEPT ![t] = s2m_resume(tasks[t])]
    /\ puppets' = puppets \cup {tasks[t].message.mentions[tasks[t].i].uuid}
    /\ UNCHANGED <<codec, fmt>>

\* pu.Puppet.get_by_address raises (the directory is unavailable).
S2MLookupRaise(t) ==
    /\ tasks[t].kind = "s2m" /\ tasks[t].pc = "await"
    /\ tasks' = [tasks EXCEPT ![t].pc = "raised", ![t].error = "lookup"]
    /\ UNCHANGED <<codec, fmt, puppets>>

S2MFinish(t) ==
    /\ tasks[t].kind = "s2m" /\ tasks[t].pc = "tail"
    /\ tasks' = [tasks EXCEPT ![t] = s2m_finish(tasks[t])]
    /\ UNCHANGED <<codec, fmt, puppets>>

(***************************************************************************)
(* EntityString (mautrix.util.formatter), the base of SignalFormatString:  *)
(* the helpers format calls.  A string is [text, entities]; an entity is   *)
(* [uuid, start, length].                                                  *)
(***************************************************************************)
FS(text, entities) == [text |-> text, entities |-> entities]

\* The entities e of a sequence that satisfy Keep, each replaced by Map(e).
MapKeep(entities, Keep(_), Map(_)) ==
    LET kept == SelectSeq(entities, Keep)
    IN  [i \in 1..Len(kept) |-> Map(kept[i])]

\* self._offset_entities(n), n >= 0: every entity's offset grows by n.
offset_entities(entities, n) ==
    LET keep(e) == TRUE
        shift(e) == [e EXCEPT !.start = @ + n]
    IN  MapKeep(entities, keep, shift)

\* str.isspace for the characters of the model.
IsSpace(c) == c \in {9, 10, 11, 12, 13, 32}

RECURSIVE lstrip(_)
lstrip(s) == IF s # <<>> /\ IsSpace(Head(s)) THEN lstrip(Tail(s)) ELSE s

RECURSIVE rstrip(_)
rstrip(s) ==
    IF s # <<>> /\ IsSpace(s[Len(s)]) THEN rstrip(SubSeq(s, 1, Len(s) - 1))
    ELSE s

Max(a, b) == IF a > b THEN a ELSE b

\* self.trim(): the leading and trailing whitespace is removed, the entities
\* move left by the leading characters removed and are cut to the text that
\* remains; an entity that lay in the removed text is dropped.
trim(f) ==
    LET stripped == lstrip(f.text)
        diff == Len(f.text) - Len(stripped)
        text == rstrip(stripped)
        keep(e) == IF e.length = 0
                   THEN diff <= e.start /\ e.start - diff <= Len(text)
                   ELSE e.start + e.length > diff /\ e.start - diff < Len(text)
        cut(e) == LET lo == Max(e.start - diff, 0)
                      hi == Min(e.start - diff + e.length, Len(text))
                  IN  [e EXCEPT !.start = lo, !.length = hi - lo]
    IN  FS(text, MapKeep(f.entities, keep, cut))

\* The position of the first separator of s at or after position i, or 0.
FindFrom(s, c, i) ==
    LET hits == {k \in i..Len(s) : s[k] = c}
    IN  IF hits = {} THEN 0 ELSE CHOOSE k \in hits : \A j \in hits : k <= j

\* self.split(separator): the text cut at every separator; an entity goes to
\* the part its offset lies in, re-based and cut to the end of that part.
RECURSIVE SplitFrom(_, _, _)
SplitFrom(f, c, from) ==
    LET at == FindFrom(f.text, c, from)
        to == IF at = 0 THEN Len(f.text) ELSE at - 1
        keep(e) == from - 1 <= e.start /\ e.start <= to
        cut(e) == [e EXCEPT !.start = @ - (from - 1),
                            !.length = Min(@, to - e.start)]
        part == FS(SubSeq(f.text, from, to), MapKeep(f.entities, keep, cut))
    IN  IF at = 0 THEN <<part>> ELSE <<part>> \o SplitFrom(f, c, at + 1)

split(f, c) == SplitFrom(f, c, 1)

\* child.prepend(prefix), prefix a str
prepend(f, prefix) ==
    FS(prefix \o f.text, offset_entities(f.entities, Len(prefix)))

\* cls.join(items, separator): every item's offsets grow by the length of
\* the text joined before it; the separator after the last item is cut off.
RECURSIVE JoinFrom(_, _, _)
JoinFrom(main, items, separator) ==
    IF items = <<>> THEN main
    ELSE LET msg == Head(items) IN
         JoinFrom(FS(main.text \o msg.text \o separator,
                     main.entities
                        \o offset_entities(msg.entities, Len(main.text))),
                  Tail(items), separator)

join(items, separator) ==
    LET main == JoinFrom(FS(<<>>, <<>>), items, separator)
    IN  FS(SubSeq(main.text, 1, Len(main.text) - Len(separator)),
           main.entities)

RECURSIVE PrependAll(_, _)
PrependAll(children, prefix) ==
    IF children = <<>> THEN <<>>
    ELSE <<prepend(Head(children), prefix)>> \o PrependAll(Tail(children), prefix)

RECURSIVE Repeat(_, _)
Repeat(c, n) == IF n = 0 THEN <<>> ELSE <<c>> \o Repeat(c, n - 1)

(***************************************************************************)
(* SignalFormatString.format.                                              *)
(***************************************************************************)
EntityTypes == {"USER_MENTION", "BOLD", "ITALIC", "STRIKETHROUGH", "URL",
                "PREFORMATTED", "INLINE_CODE", "BLOCKQUOTE", "HEADER",
                "UNDERLINE"}

NoArgs == [uuid |-> "", url |-> <<>>, language |-> <<>>, size |-> 0]

format_prefix(f, entity_type, kwargs) ==
    CASE entity_type = "BOLD" -> <<42, 42>>
      [] entity_type = "ITALIC" -> <<95>>
      [] entity_type = "STRIKETHROUGH" -> <<126, 126>>
      [] entity_type = "PREFORMATTED" -> <<96, 96, 96>> \o kwargs.language \o <<10>>
      [] entity_type = "INLINE_CODE" -> <<96>>
      [] entity_type = "HEADER" -> Repeat(35, kwargs.size) \o <<32>>
      [] OTHER -> <<>>

format_suffix(f, entity_type, kwargs) ==
    CASE entity_type = "BOLD" -> <<42, 42>>
      [] entity_type = "ITALIC" -> <<95>>
      [] entity_type = "STRIKETHROUGH" -> <<126, 126>>
      [] entity_type = "URL" ->
            IF kwargs.url # f.text THEN <<32, 40>> \o kwargs.url \o <<41>>
            ELSE <<>>
      [] entity_type = "PREFORMATTED" -> <<10, 96, 96, 96>>
      [] entity_type = "INLINE_CODE" -> <<96>>
      [] OTHER -> <<>>

\* A mutant of format: the entities are moved by the suffix, not the prefix.
format_shift_by_suffix(f, entity_type, kwargs) ==
    IF entity_type = "USER_MENTION"
    THEN FS(f.text, Append(f.entities,
                [uuid |-> kwargs.uuid, start |-> 0, length |-> Len(f.text)]))
    ELSE IF entity_type = "BLOCKQUOTE"
    THEN join(PrependAll(split(trim(f), 10), <<62, 32>>), <<10>>)
    ELSE IF entity_type \in {"BOLD", "ITALIC", "STRIKETHROUGH", "URL",
                             "PREFORMATTED", "INLINE_CODE", "HEADER"}
    THEN FS(format_prefix(f, entity_type, kwargs) \o f.text
                \o format_suffix(f, entity_type, kwargs),
            offset_entities(f.entities,
                            Len(format_suffix(f, entity_type, kwargs))))
    ELSE f

\* A mutant of format: the prefix is left out of the new text.
format_drop_prefix(f, entity_type, kwargs) ==
    IF entity_type = "USER_MENTION"
    THEN FS(f.text, Append(f.entities,
                [uuid |-> kwargs.uuid, start |-> 0, length |-> Len(f.text)]))
    ELSE IF entity_type = "BLOCKQUOTE"
    THEN join(PrependAll(split(trim(f), 10), <<62, 32>>), <<10>>)
    ELSE IF entity_type \in {"BOLD", "ITALIC", "STRIKETHROUGH", "URL",
                             "PREFORMATTED", "INLINE_CODE", "HEADER"}
    THEN FS(f.text \o format_suffix(f, entity_type, kwargs),
            offset_entities(f.entities,
                            Len(format_prefix(f, entity_type, kwargs))))
    ELSE f

\* self.format(entity_type, **kwargs)
format(f, entity_type, kwargs) ==
    IF entity_type = "USER_MENTION"
    THEN FS(f.text, Append(f.entities,
                [uuid |-> kwargs.uuid, start |-> 0, length |-> Len(f.text)]))
    ELSE IF entity_type = "BLOCKQUOTE"
    THEN join(PrependAll(split(trim(f), 10), <<62, 32>>), <<10>>)
    ELSE IF entity_type \in {"BOLD", "ITALIC", "STRIKETHROUGH", "URL",
                             "PREFORMATTED", "INLINE_CODE", "HEADER"}
    THEN FS(format_prefix(f, entity_type, kwargs) \o f.text
                \o format_suffix(f, entity_type, kwargs),
            offset_entities(f.entities,
                            Len(format_prefix(f, entity_type, kwargs))))
    ELSE f

(***************************************************************************)
(* A SignalFormatString under a sequence of format calls, each applied to  *)
(* the whole string as the parser applies the markup of an enclosing node. *)
(* The history fields record, for every entity attached, where it was      *)
(* attached and the prefixes put in front of it since.                     *)
(***************************************************************************)
OriginOf(entities) ==
    [i \in 1..Len(entities) |->
        [orig_start |-> entities[i].start, orig_length |-> entities[i].length,
         prefix_sum |-> 0]]

InitFormatStrings ==
    { FS(<<>>, <<>>),
      FS(<<97>>, <<>>),
      FS(<<97, 32, 98>>, <<[uuid |-> "u2", start |-> 2, length |-> 1]>>),
      FS(<<32, 97, 10, 98, 32>>, <<[uuid |-> "u1", start |-> 1, length |-> 3]>>) }

InitFmt ==
    /\ \E f \in InitFormatStrings :
        fmt = [active |-> TRUE, f |-> f, origin |-> OriginOf(f.entities),
               wraps_only |-> TRUE,
               last |-> [op |-> "", text_before |-> <<>>, n_before |-> 0],
               nops |-> 0]
    /\ codec = IdleCodec /\ tasks = IdleTasks /\ puppets = InitPuppets

\* One call self.format(entity_type, **kwargs); prefix_len is the length of
\* the decoration the call puts in front of the text.
ApplyFormat(entity_type, kwargs, prefix_len) ==
    /\ fmt.active
    /\ fmt.nops < MaxFmtOps
    /\ fmt' = [fmt EXCEPT
            !.f = format(fmt.f, entity_type, kwargs),
            !.origin =
                IF entity_type = "USER_MENTION"
                THEN Append(@, [orig_start |-> 0,
                                orig_length |-> Len(fmt.f.text),
                                prefix_sum |-> 0])
                ELSE [i \in 1..Len(@) |->
                        [@[i] EXCEPT !.prefix_sum = @ + prefix_len]],
            !.wraps_only = @ /\ entity_type # "BLOCKQUOTE",
            !.last = [op |-> entity_type, text_before |-> fmt.f.text,
                      n_before |-> Len(fmt.f.entities)],
            !.nops = @ + 1]
    /\ UNCHANGED <<codec, tasks, puppets>>

FormatUserMention ==
    \E uuid \in Uuids :
        ApplyFormat("USER_MENTION", [NoArgs EXCEPT !.uuid = uuid], 0)

FormatBold == ApplyFormat("BOLD", NoArgs, 2)

FormatItalic == ApplyFormat("ITALIC", NoArgs, 1)

FormatStrikethrough == ApplyFormat("STRIKETHROUGH", NoArgs, 2)

FormatUrl ==
    \E url \in {fmt.f.text, <<104>>} :
        ApplyFormat("URL", [NoArgs EXCEPT !.url = url], 0)

FormatPreformatted ==
    \E language \in {<<>>, <<112, 121>>} :
        ApplyFormat("PREFORMATTED", [NoArgs EXCEPT !.language = language],
                    4 + Len(language))

FormatInlineCode == ApplyFormat("INLINE_CODE", NoArgs, 1)

FormatBlockquote == ApplyFormat("BLOCKQUOTE", NoArgs, 0)

FormatHeader ==
    \E size \in 1..MaxHeaderSize :
        ApplyFormat("HEADER", [NoArgs EXCEPT !.size = size], size + 1)

FormatOther == ApplyFormat("UNDERLINE", NoArgs, 0)

NextFmt ==
    \/ FormatUserMention
    \/ FormatBold
    \/ FormatItalic
    \/ FormatStrikethrough
    \/ FormatUrl
    \/ FormatPreformatted
    \/ FormatInlineCode
    \/ FormatBlockquote
    \/ FormatHeader
    \/ FormatOther

SpecFormat == InitFmt /\ [][NextFmt]_vars

NextCodec == CodecExpand \/ CodecCollapse

SpecCodec == InitCodec /\ [][NextCodec]_vars

(***************************************************************************)
(* C2: collapse inverts expand on every well-formed text, and the expanded *)
(* text has one character per UTF-16 code unit of the text: two for every  *)
(* code point from 0x10000 on, one for every other.                        *)
(***************************************************************************)
CodeUnitLength(text) ==
    Len(text) + Cardinality({i \in 1..Len(text) : text[i] > 65535})

C2_RoundTrip ==
    /\ codec.pc \in {"expanded", "collapsed"} =>
        /\ Len(codec.expanded) = CodeUnitLength(codec.text)
        /\ \A i \in 1..Len(codec.expanded) : codec.expanded[i] <= 65535
        /\ (\A i \in 1..Len(codec.text) : codec.text[i] <= 65535)
                => codec.expanded = codec.text
    /\ codec.pc = "collapsed" =>
        /\ codec.collapsed.ok
        /\ codec.collapsed.text = codec.text

C2_Witness ==
    /\ codec.pc = "collapsed"
    /\ Len(codec.text) = 3
    /\ codec.text[1] = 97 /\ codec.text[2] = 65536 /\ codec.text[3] = 128512
    /\ Len(codec.expanded) = 5

(***************************************************************************)
(* C6: through any sequence of wrapping format calls, every mention's      *)
(* offset is the offset it was attached with plus the lengths of the       *)
(* prefixes put in front since, and its length is the one it was attached  *)
(* with; a suffix moves nothing.                                           *)
(***************************************************************************)
C6_WrapOffsets ==
    (fmt.active /\ fmt.wraps_only) =>
        /\ Len(fmt.f.entities) = Len(fmt.origin)
        /\ \A i \in 1..Len(fmt.f.entities) :
            /\ fmt.f.entities[i].start
                 = fmt.origin[i].orig_start + fmt.origin[i].prefix_sum
            /\ fmt.f.entities[i].length = fmt.origin[i].orig_length

C6_Witness ==
    /\ fmt.active /\ fmt.wraps_only
    /\ fmt.nops = 3
    /\ fmt.last.op = "URL"
    /\ fmt.f.text # fmt.last.text_before
    /\ \E i \in 1..Len(fmt.f.entities) :
        /\ fmt.origin[i].orig_start = 2
        /\ fmt.origin[i].prefix_sum = 6
        /\ fmt.f.entities[i].start = 8

(***************************************************************************)
(* C10: after any sequence of format calls of any kind every mention lies  *)
(* within the text, and a user-mention call attaches one entity with       *)
(* offset 0 and the length of the whole text, leaving the text as it was.  *)
(***************************************************************************)
C10_EntitiesInBounds ==
    fmt.active =>
        /\ \A i \in 1..Len(fmt.f.entities) :
            /\ fmt.f.entities[i].start >= 0
            /\ fmt.f.entities[i].length >= 0
            /\ fmt.f.entities[i].start + fmt.f.entities[i].length
                 <= Len(fmt.f.text)
        /\ fmt.last.op = "USER_MENTION" =>
            /\ fmt.f.text = fmt.last.text_before
            /\ Len(fmt.f.entities) = fmt.last.n_before + 1
            /\ fmt.f.entities[Len(fmt.f.entities)].start = 0
            /\ fmt.f.entities[Len(fmt.f.entities)].length = Len(fmt.f.text)

C10_Witness ==
    /\ fmt.active
    /\ fmt.last.op = "BLOCKQUOTE"
    /\ fmt.last.text_before = <<32, 97, 10, 98, 32>>
    /\ fmt.f.text = <<62, 32, 97, 10, 62, 32, 98>>
    /\ Len(fmt.f.entities) = 2
    /\ fmt.f.entities[2].start = 2
    /\ fmt.f.entities[2].length = 1

(***************************************************************************)
(* The user directory (u.User, pu.Puppet.get_by_mxid), an external         *)
(* collaborator, read with create=False.                                   *)
(***************************************************************************)
Mxids == {"m1", "m2", "m3", "m4", "m5"}

\* u.User.get_by_mxid: m1 and m5 are users logged into Signal, m2 is a user
\* that is not (no uuid), m3 and m4 are no users of the bridge.
UserOf(mxid) ==
    CASE mxid \in {"m1", "m5"} -> [exists |-> TRUE, uuid |-> "u1"]
      [] mxid = "m2" -> [exists |-> TRUE, uuid |-> ""]
      [] OTHER -> [exists |-> FALSE, uuid |-> ""]

\* pu.Puppet.get_by_mxid: the uuid of the puppet with that Matrix id, "" for
\* none.
PuppetByMxid(mxid) == IF mxid \in {"m2", "m3", "m5"} THEN "u2" ELSE ""

(***************************************************************************)
(* HTML and the markup parser (mautrix.util.formatter.MatrixParser).  An   *)
(* HTML string is a sequence of characters in which a negative number      *)
(* stands for the characters of one tag.                                   *)
(***************************************************************************)
Tag == [bold_open |-> -10, bold_close |-> -11, pill_close |-> -29]

\* <a href="https://matrix.to/#/{mxid}">
PillOpen(mxid) ==
    CASE mxid = "m1" -> -21 [] mxid = "m2" -> -22 [] mxid = "m3" -> -23
      [] mxid = "m4" -> -24 [] mxid = "m5" -> -25

IsPillOpen(token) == \E mxid \in Mxids : token = PillOpen(mxid)

PillTarget(token) == CHOOSE mxid \in Mxids : token = PillOpen(mxid)

IsOpen(token) == token = Tag.bold_open \/ IsPillOpen(token)

Closes(token, open) ==
    \/ token = Tag.bold_close /\ open = Tag.bold_open
    \/ token = Tag.pill_close /\ IsPillOpen(open)

\* fs.append(child): the child's entities move by the length of the text
\* they are appended to.
append(f, child) ==
    FS(f.text \o child.text,
       f.entities \o offset_entities(child.entities, Len(f.text)))

\* The parser's frame of the node being read: its opening tag and the
\* string built from its children so far.
Frame(open, f) == [open |-> open, f |-> f]

\* The string of a closed child node joins the string of its parent.
PopInto(stack, child) ==
    LET parent == stack[Len(stack) - 1]
    IN  Append(SubSeq(stack, 1, Len(stack) - 2),
               Frame(parent.open, append(parent.f, child)))

(***************************************************************************)
(* MatrixParser.user_pill_to_fstring and matrix_to_signal.                 *)
(***************************************************************************)
ActionMarker == <<47, 109, 101, 32>>

Truthy(x) == x # None /\ x # <<>>

\* A conversion not started yet.  `content` is the caller's object, `orig`
\* what it held when the call was made.
M2STask(content) ==
    [kind |-> "m2s", pc |-> "start", content |-> content, orig |-> content,
     tokens |-> <<>>, pos |-> 1, stack |-> <<>>,
     pill |-> [msg |-> FS(<<>>, <<>>), user_id |-> ""],
     pills |-> <<>>,
     result |-> [text |-> <<>>, mentions |-> <<>>],
     error |-> ""]

\* A mutant of m2s_begin: only the plain body gets the action marker.
m2s_begin_body_only(st) ==
    LET content ==
            IF st.content.msgtype = "m.emote"
            THEN [st.content EXCEPT !.body = ActionMarker \o st.content.body]
            ELSE st.content
    IN  IF content.format = "html" /\ Truthy(content.formatted_body)
        THEN [st EXCEPT !.content = content,
                        !.tokens = add_surrogate(content.formatted_body),
                        !.stack = <<Frame(0, FS(<<>>, <<>>))>>,
                        !.pc = "parse"]
        ELSE [st EXCEPT !.content = content,
                        !.result = [text |-> content.body, mentions |-> <<>>],
                        !.pc = "done"]

\* Lines 149-154 and 156-158: the emote prefix is written into the caller's
\* content; then either the parser is started on the expanded formatted
\* body, or the plain body is returned.
m2s_begin(st) ==
    LET content ==
            IF st.content.msgtype = "m.emote"
            THEN [st.content EXCEPT
                    !.body = ActionMarker \o st.content.body,
                    !.formatted_body =
                        IF Truthy(st.content.formatted_body)
                        THEN ActionMarker \o st.content.formatted_body
                        ELSE st.content.formatted_body]
            ELSE st.content
    IN  IF content.format = "html" /\ Truthy(content.formatted_body)
        THEN [st EXCEPT !.content = content,
                        !.tokens = add_surrogate(content.formatted_body),
                        !.stack = <<Frame(0, FS(<<>>, <<>>))>>,
                        !.pc = "parse"]
        ELSE [st EXCEPT !.content = content,
                        !.result = [text |-> content.body, mentions |-> <<>>],
                        !.pc = "done"]

\* The parser reads one token: a character joins the string of the open
\* node, an opening tag opens a node, </b> formats the node bold, the end
\* of a pill calls user_pill_to_fstring, which suspends at its first lookup.
parse_token(st) ==
    LET token == st.tokens[st.pos]
        top == st.stack[Len(st.stack)]
    IN  IF token >= 0
        THEN [st EXCEPT !.pos = st.pos + 1,
                        !.stack = Append(SubSeq(st.stack, 1, Len(st.stack) - 1),
                                Frame(top.open, append(top.f, FS(<<token>>, <<>>))))]
        ELSE IF IsOpen(token)
        THEN [st EXCEPT !.pos = st.pos + 1,
                        !.stack = Append(st.stack, Frame(token, FS(<<>>, <<>>)))]
        ELSE IF token = Tag.bold_close
        THEN [st EXCEPT !.pos = st.pos + 1,
                        !.stack = PopInto(st.stack, format(top.f, "BOLD", NoArgs))]
        ELSE [st EXCEPT !.pos = st.pos + 1,
                        !.pill = [msg |-> top.f, user_id |-> PillTarget(top.open)],
                        !.pc = "await_user"]

\* user_pill_to_fstring returned new_msg for the pill read last.
pill_done(st, new_msg) ==
    [st EXCEPT !.stack = PopInto(st.stack, new_msg),
               !.pills = Append(st.pills,
                    [user_id |-> st.pill.user_id, msg |-> st.pill.msg,
                     new_msg |-> new_msg]),
               !.pc = "parse"]

\* A mutant of pill_user_return: a user is taken as resolved with no uuid.
pill_user_return_any_user(st) ==
    LET user == UserOf(st.pill.user_id)
    IN  IF user.exists
        THEN pill_done(st, format(st.pill.msg, "USER_MENTION",
                                  [NoArgs EXCEPT !.uuid = user.uuid]))
        ELSE [st EXCEPT !.pc = "await_puppet"]

\* Lines 133-136 and 142: u.User.get_by_mxid returned.
pill_user_return(st) ==
    LET user == UserOf(st.pill.user_id)
    IN  IF user.exists /\ user.uuid # ""
        THEN pill_done(st, format(st.pill.msg, "USER_MENTION",
                                  [NoArgs EXCEPT !.uuid = user.uuid]))
        ELSE [st EXCEPT !.pc = "await_puppet"]

\* Lines 137-142: pu.Puppet.get_by_mxid returned.
pill_puppet_return(st) ==
    LET puppet == PuppetByMxid(st.pill.user_id)
    IN  IF puppet # ""
        THEN pill_done(st, format(st.pill.msg, "USER_MENTION",
                                  [NoArgs EXCEPT !.uuid = puppet]))
        ELSE pill_done(st, st.pill.msg)

\* Lines 155 and 158: the parsed text is collapsed and returned with the
\* entities of the parsed string.
m2s_finish(st) ==
    LET parsed == st.stack[1].f
        text == del_surrogate(parsed.text)
    IN  IF text.ok
        THEN [st EXCEPT !.result = [text |-> text.text,
                                    mentions |-> parsed.entities],
                        !.pc = "done"]
        ELSE [st EXCEPT !.pc = "raised", !.error = "UnicodeDecodeError"]

M2SBegin(t) ==
    /\ tasks[t].kind = "m2s" /\ tasks[t].pc = "start"
    /\ tasks' = [tasks EXCEPT ![t] = m2s_begin(tasks[t])]
    /\ UNCHANGED <<codec, fmt, puppets>>

M2SParseToken(t) ==
    /\ tasks[t].kind = "m2s" /\ tasks[t].pc = "parse"
    /\ tasks[t].pos <= Len(tasks[t].tokens)
    /\ tasks' = [tasks EXCEPT ![t] = parse_token(tasks[t])]
    /\ UNCHANGED <<codec, fmt, puppets>>

M2SUserReturn(t) ==
    /\ tasks[t].kind = "m2s" /\ tasks[t].pc = "await_user"
    /\ tasks' = [tasks EXCEPT ![t] = pill_user_return(tasks[t])]
    /\ UNCHANGED <<codec, fmt, puppets>>

M2SPuppetReturn(t) ==
    /\ tasks[t].kind = "m2s" /\ tasks[t].pc = "await_puppet"
    /\ tasks' = [tasks EXCEPT ![t] = pill_puppet_return(tasks[t])]
    /\ UNCHANGED <<codec, fmt, puppets>>

\* Either lookup raises (the directory is unavailable).
M2SLookupRaise(t) ==
    /\ tasks[t].kind = "m2s" /\ tasks[t].pc \in {"await_user", "await_puppet"}
    /\ tasks' = [tasks EXCEPT ![t].pc = "raised", ![t].error = "lookup"]
    /\ UNCHANGED <<codec, fmt, puppets>>

M2SFinish(t) ==
    /\ tasks[t].kind = "m2s" /\ tasks[t].pc = "parse"
    /\ tasks[t].pos > Len(tasks[t].tokens)
    /\ tasks' = [tasks EXCEPT ![t] = m2s_finish(tasks[t])]
    /\ UNCHANGED <<codec, fmt, puppets>>

\* matrix_to_signal run to its end with every lookup answered.
RECURSIVE m2s_run(_)
m2s_run(st) ==
    CASE st.pc = "start" -> m2s_run(m2s_begin(st))
      [] st.pc = "parse" /\ st.pos <= Len(st.tokens) -> m2s_run(parse_token(st))
      [] st.pc = "parse" /\ st.pos > Len(st.tokens) -> m2s_finish(st)
      [] st.pc = "await_user" -> m2s_run(pill_user_return(st))
      [] st.pc = "await_puppet" -> m2s_run(pill_puppet_return(st))
      [] OTHER -> st

(***************************************************************************)
(* signal_to_matrix on one message.  SpecInbound draws any mention list    *)
(* (any order, overlapping, past the end of the body); SpecInboundSorted   *)
(* draws the lists that are sorted by start, non-overlapping and in        *)
(* bounds.                                                                 *)
(***************************************************************************)
InboundAlphabet == {97, 38, 128512}

Bodies == TextsUpTo(InboundAlphabet, MaxBody)

MentionsOf(body) ==
    [uuid : Uuids, start : 0..(CodeUnitLength(body) + 1),
     length : 1..MaxMentionLen]

MentionLists(body) == UNION {[1..n -> MentionsOf(body)] : n \in 0..MaxMentions}

InBounds(body, mentions) ==
    \A k \in 1..Len(mentions) :
        mentions[k].start + mentions[k].length <= CodeUnitLength(body)

NonOverlapping(mentions) ==
    \A j, k \in 1..Len(mentions) :
        j # k => \/ mentions[j].start + mentions[j].length <= mentions[k].start
                 \/ mentions[k].start + mentions[k].length <= mentions[j].start

SortedByStart(mentions) ==
    \A k \in 1..(Len(mentions) - 1) : mentions[k].start <= mentions[k + 1].start

InitInbound ==
    /\ \E body \in Bodies : \E mentions \in MentionLists(body) :
        tasks = <<S2MTask([body |-> body, mentions |-> mentions])>>
    /\ codec = IdleCodec /\ fmt = IdleFmt /\ puppets = InitPuppets

InitInboundSorted ==
    /\ \E body \in Bodies : \E mentions \in MentionLists(body) :
        /\ InBounds(body, mentions)
        /\ NonOverlapping(mentions)
        /\ SortedByStart(mentions)
        /\ tasks = <<S2MTask([body |-> body, mentions |-> mentions])>>
    /\ codec = IdleCodec /\ fmt = IdleFmt /\ puppets = InitPuppets

NextS2M ==
    \E t \in DOMAIN tasks :
        \/ S2MBegin(t)
        \/ S2MMention(t)
        \/ S2MLookupReturn(t)
        \/ S2MLookupRaise(t)
        \/ S2MFinish(t)

SpecInbound == InitInbound /\ [][NextS2M]_vars

SpecInboundSorted == InitInboundSorted /\ [][NextS2M]_vars

\* signal_to_matrix run to its end with every lookup answered.
RECURSIVE s2m_run(_)
s2m_run(st) ==
    CASE st.pc = "start" -> s2m_run(s2m_begin(st))
      [] st.pc = "loop" -> s2m_run(s2m_resume(s2m_mention(st)))
      [] st.pc = "tail" -> s2m_finish(st)
      [] OTHER -> st

(***************************************************************************)
(* C1: for mentions sorted by start, non-overlapping and in bounds the     *)
(* plain body is the collapse of (code units before mention 1, name 1,     *)
(* code units between, ..., name n, code units after); when every mention  *)
(* starts and ends between two characters the conversion does not fail in  *)
(* the collapse and the body is the text with exactly the characters of    *)
(* each mention replaced by the name: no astral character is split and no  *)
(* neighbouring character is lost.                                         *)
(***************************************************************************)
DisplayName(uuid) ==
    IF PuppetName(uuid) # None /\ PuppetName(uuid) # <<>>
    THEN PuppetName(uuid) ELSE PuppetMxid(uuid)

\* The code units of (span before mention k, name k), k from `from` on, and
\* the units after the last mention.
RECURSIVE ExpectedUnits(_, _, _, _)
ExpectedUnits(units, mentions, from, consumed) ==
    IF from > Len(mentions) THEN SubSeq(units, consumed + 1, Len(units))
    ELSE SubSeq(units, consumed + 1, mentions[from].start)
         \o EncodeUnits(DisplayName(mentions[from].uuid))
         \o ExpectedUnits(units, mentions, from + 1,
                          mentions[from].start + mentions[from].length)

\* The number of characters of the text before code unit offset o, when o
\* lies between two characters; -1 when it lies inside one.
NativeIndex(text, o) ==
    IF \E k \in 0..Len(text) : CodeUnitLength(SubSeq(text, 1, k)) = o
    THEN CHOOSE k \in 0..Len(text) : CodeUnitLength(SubSeq(text, 1, k)) = o
    ELSE -1

AtCharacterBoundaries(text, mentions) ==
    \A k \in 1..Len(mentions) :
        /\ NativeIndex(text, mentions[k].start) >= 0
        /\ NativeIndex(text, mentions[k].start + mentions[k].length) >= 0

RECURSIVE ExpectedText(_, _, _, _)
ExpectedText(text, mentions, from, consumed) ==
    IF from > Len(mentions) THEN SubSeq(text, consumed + 1, Len(text))
    ELSE SubSeq(text, consumed + 1, NativeIndex(text, mentions[from].start))
         \o DisplayName(mentions[from].uuid)
         \o ExpectedText(text, mentions, from + 1,
                NativeIndex(text, mentions[from].start + mentions[from].length))

C1_MentionSubstitution ==
    \A t \in DOMAIN tasks :
        LET st == tasks[t]
            body == st.message.body
            mentions == st.message.mentions
            expected == DecodeUnits(ExpectedUnits(EncodeUnits(body),
                                                  mentions, 1, 0))
        IN  (st.kind = "s2m" /\ mentions # <<>>) =>
            /\ st.pc = "done" =>
                /\ expected.ok
                /\ st.content.body = expected.text
            /\ st.error = "UnicodeDecodeError" => ~expected.ok
            /\ AtCharacterBoundaries(body, mentions) =>
                /\ st.error # "UnicodeDecodeError"
                /\ st.pc = "done" =>
                    st.content.body = ExpectedText(body, mentions, 1, 0)

C1_Witness ==
    /\ Len(tasks) = 1
    /\ tasks[1].pc = "done"
    /\ tasks[1].message.body = <<128512, 97>>
    /\ Len(tasks[1].message.mentions) = 1
    /\ tasks[1].message.mentions[1].start = 2
    /\ tasks[1].message.mentions[1].length = 1
    /\ tasks[1].content.body = <<128512, 78, 128512>>

(***************************************************************************)
(* C3: whatever the order of the mention list, the plain body and the HTML *)
(* body are those produced for the same mentions sorted by start.          *)
(***************************************************************************)
Sorted(mentions) ==
    CHOOSE sorted \in [1..Len(mentions) -> {mentions[k] : k \in 1..Len(mentions)}] :
        /\ SortedByStart(sorted)
        /\ \A k \in 1..Len(mentions) : \E j \in 1..Len(mentions) :
                sorted[j] = mentions[k]

C3_OrderIndependent ==
    \A t \in DOMAIN tasks :
        LET st == tasks[t]
            mentions == st.message.mentions
        IN  (/\ st.kind = "s2m" /\ st.pc = "done"
             /\ InBounds(st.message.body, mentions)
             /\ NonOverlapping(mentions)) =>
                st.content = s2m_run(S2MTask([body |-> st.message.body,
                                mentions |-> Sorted(mentions)])).content

(***************************************************************************)
(* C4: a mention that starts or ends past the end of the body ends the     *)
(* conversion in an error; no result is returned for it.                   *)
(***************************************************************************)
C4_OutOfBoundsRaises ==
    \A t \in DOMAIN tasks :
        (/\ tasks[t].kind = "s2m"
         /\ ~InBounds(tasks[t].message.body, tasks[t].message.mentions))
            => tasks[t].pc # "done"

(***************************************************************************)
(* matrix_to_signal on one content.                                        *)
(***************************************************************************)
HtmlAlphabet ==
    {119, 128512, Tag.bold_open, Tag.bold_close, Tag.pill_close}
        \cup {PillOpen(mxid) : mxid \in Mxids}

\* Every closing tag closes the node opened last, and no node stays open.
RECURSIVE WellNested(_, _, _)
WellNested(html, i, open) ==
    IF i > Len(html) THEN open = <<>>
    ELSE IF html[i] >= 0 THEN WellNested(html, i + 1, open)
    ELSE IF IsOpen(html[i]) THEN WellNested(html, i + 1, Append(open, html[i]))
    ELSE /\ open # <<>>
         /\ Closes(html[i], open[Len(open)])
         /\ WellNested(html, i + 1, SubSeq(open, 1, Len(open) - 1))

HtmlStrings ==
    {html \in TextsUpTo(HtmlAlphabet, MaxHtml) : WellNested(html, 1, <<>>)}

Contents ==
    [msgtype : {"m.text", "m.emote"},
     body : {<<119>>, <<128512, 119>>},
     format : {"none", "html"},
     formatted_body : {None} \cup HtmlStrings]

InitOutbound ==
    /\ \E content \in Contents : tasks = <<M2STask(content)>>
    /\ codec = IdleCodec /\ fmt = IdleFmt /\ puppets = InitPuppets

NextM2S ==
    \E t \in DOMAIN tasks :
        \/ M2SBegin(t)
        \/ M2SParseToken(t)
        \/ M2SUserReturn(t)
        \/ M2SPuppetReturn(t)
        \/ M2SLookupRaise(t)
        \/ M2SFinish(t)

SpecOutbound == InitOutbound /\ [][NextM2S]_vars

M2STasks == {t \in DOMAIN tasks : tasks[t].kind = "m2s"}

\* C5: a conversion that failed leaves the caller's content (plain body and
\* formatted body) as it was when the call was made.
C5_FailureLeavesContent ==
    \A t \in M2STasks :
        tasks[t].pc = "raised" => tasks[t].content = tasks[t].orig

\* The same content sent as a plain message.
AsText(content) == [content EXCEPT !.msgtype = "m.text"]

ShiftMentions(mentions, n) ==
    [i \in DOMAIN mentions |-> [mentions[i] EXCEPT !.start = @ + n]]

StartsWith(text, prefix) ==
    Len(text) >= Len(prefix) /\ SubSeq(text, 1, Len(prefix)) = prefix

\* C7: for an emote, the plain body and the formatted body carry the action
\* marker from the first step on, so the parser only ever reads the marked
\* formatted body; the returned text starts with the marker and is the text
\* of the same content sent as a plain message behind the marker, and every
\* returned mention is that message's mention moved by the marker's length.
C7_EmoteMarker ==
    \A t \in M2STasks :
        LET st == tasks[t]
            plain == m2s_run(M2STask(AsText(st.orig)))
        IN  st.orig.msgtype = "m.emote" /\ st.pc # "start" =>
              /\ st.content.body = ActionMarker \o st.orig.body
              /\ Truthy(st.orig.formatted_body) =>
                    st.content.formatted_body
                        = ActionMarker \o st.orig.formatted_body
              /\ st.pc \in {"parse", "await_user", "await_puppet"} =>
                    st.tokens
                        = add_surrogate(ActionMarker \o st.orig.formatted_body)
              /\ st.pc = "done" =>
                    /\ StartsWith(st.result.text, ActionMarker)
                    /\ plain.pc = "done"
                    /\ st.result.text = ActionMarker \o plain.result.text
                    /\ st.result.mentions
                        = ShiftMentions(plain.result.mentions, Len(ActionMarker))

\* An emote "<b><pill m3>w</pill></b>" is done: its mention of u2 starts
\* behind the marker and the bold prefix.
C7_Witness ==
    \E t \in M2STasks :
        /\ tasks[t].pc = "done"
        /\ tasks[t].orig.msgtype = "m.emote"
        /\ tasks[t].orig.formatted_body
            = <<Tag.bold_open, PillOpen("m3"), 119, Tag.pill_close,
                Tag.bold_close>>
        /\ tasks[t].result.text = ActionMarker \o <<42, 42, 119, 42, 42>>
        /\ tasks[t].result.mentions
            = <<[uuid |-> "u2", start |-> 6, length |-> 1]>>

\* The identifier a pill of that Matrix id resolves to, "" for none.
ResolvedUuid(mxid) ==
    IF UserOf(mxid).exists /\ UserOf(mxid).uuid # ""
    THEN UserOf(mxid).uuid
    ELSE PuppetByMxid(mxid)

WholeTextMention(uuid, text) ==
    [uuid |-> uuid, start |-> 0, length |-> Len(text)]

\* C8: every pill read so far kept its display text; it got one mention over
\* that text, of the user's identifier if the user has one and else of the
\* puppet's, or, with neither, no mention at all; and nothing but a raising
\* lookup makes the conversion fail.
C8_PillResolution ==
    \A t \in M2STasks :
        /\ \A k \in DOMAIN tasks[t].pills :
            LET p == tasks[t].pills[k]
                uuid == ResolvedUuid(p.user_id)
            IN  /\ p.new_msg.text = p.msg.text
                /\ IF uuid # ""
                   THEN p.new_msg.entities
                        = Append(p.msg.entities,
                                 WholeTextMention(uuid, p.msg.text))
                   ELSE p.new_msg = p.msg
        /\ tasks[t].error \in {"", "lookup"}
        /\ tasks[t].pc = "done" /\ tasks[t].tokens # <<>> =>
            /\ Len(tasks[t].pills)
                = Cardinality({i \in DOMAIN tasks[t].tokens :
                                tasks[t].tokens[i] = Tag.pill_close})
            /\ Len(tasks[t].result.mentions)
                = Cardinality({k \in DOMAIN tasks[t].pills :
                                ResolvedUuid(tasks[t].pills[k].user_id) # ""})

\* "<pill m4>w</pill>w" is done: m4 is neither a user nor a puppet, its
\* display text stays and there is no mention.
C8_Witness ==
    \E t \in M2STasks :
        /\ tasks[t].pc = "done"
        /\ tasks[t].orig.msgtype = "m.text"
        /\ tasks[t].orig.formatted_body
            = <<PillOpen("m4"), 119, Tag.pill_close, 119>>
        /\ Len(tasks[t].pills) = 1
        /\ tasks[t].result.text = <<119, 119>>
        /\ tasks[t].result.mentions = <<>>

(***************************************************************************)
(* Conversions of different messages running on one event loop: a task is  *)
(* left only at a directory lookup, and any other task may run before the  *)
(* lookup returns.                                                         *)
(***************************************************************************)
ConcMessages ==
    {[body |-> <<97, 128512>>,
      mentions |-> <<[uuid |-> "u1", start |-> 0, length |-> 1],
                     [uuid |-> "u2", start |-> 1, length |-> 2]>>],
     [body |-> <<38, 97>>,
      mentions |-> <<[uuid |-> "u2", start |-> 1, length |-> 1]>>]}

ConcContents ==
    {[msgtype |-> "m.emote", body |-> <<119>>, format |-> "html",
      formatted_body |-> <<119, PillOpen("m2"), 119, Tag.pill_close>>],
     [msgtype |-> "m.text", body |-> <<128512, 119>>, format |-> "html",
      formatted_body |-> <<Tag.bold_open, PillOpen("m1"), 128512,
                           Tag.pill_close, Tag.bold_close>>],
     [msgtype |-> "m.emote", body |-> <<119>>, format |-> "none",
      formatted_body |-> None]}

ConcTasks ==
    {S2MTask(message) : message \in ConcMessages}
        \cup {M2STask(content) : content \in ConcContents}

InitConc ==
    /\ tasks \in [1..NumTasks -> ConcTasks]
    /\ codec = IdleCodec /\ fmt = IdleFmt /\ puppets = InitPuppets

NextConc == NextS2M \/ NextM2S

SpecConc == InitConc /\ [][NextConc]_vars

\* The task as it was when the call was made.
Initial(st) ==
    IF st.kind = "s2m" THEN S2MTask(st.message) ELSE M2STask(st.orig)

\* The next state of a conversion running alone, its lookup answered.
SoloStep(st) ==
    CASE st.kind = "s2m" /\ st.pc = "start" -> s2m_begin(st)
      [] st.kind = "s2m" /\ st.pc = "loop" -> s2m_mention(st)
      [] st.kind = "s2m" /\ st.pc = "await" -> s2m_resume(st)
      [] st.kind = "s2m" /\ st.pc = "tail" -> s2m_finish(st)
      [] st.kind = "m2s" /\ st.pc = "start" -> m2s_begin(st)
      [] st.kind = "m2s" /\ st.pc = "parse" /\ st.pos <= Len(st.tokens) ->
            parse_token(st)
      [] st.kind = "m2s" /\ st.pc = "parse" /\ st.pos > Len(st.tokens) ->
            m2s_finish(st)
      [] st.kind = "m2s" /\ st.pc = "await_user" -> pill_user_return(st)
      [] st.kind = "m2s" /\ st.pc = "await_puppet" -> pill_puppet_return(st)
      [] OTHER -> st

\* The states of a conversion running alone.
RECURSIVE SoloStates(_)
SoloStates(st) ==
    IF st.pc \in {"done", "raised"} THEN {st}
    ELSE {st} \cup SoloStates(SoloStep(st))

====
